---- MODULE Spec2Model ----
(***************************************************************************)
(* Model of the note-processing pipeline of scribe: the Note row, the      *)
(* owner-facing handlers that create, edit and retry notes, and the        *)
(* background runs process_new_note / reprocess_note.                       *)
(*                                                                         *)
(* A background run reads and writes the row through its own ORM session.  *)
(* The session keeps the attribute values it last loaded; a commit writes  *)
(* only the attributes whose current value differs from the loaded one,    *)
(* and expires the object, which is reloaded by the attribute access that  *)
(* follows every commit in the code (note.user_id in the broadcast call).  *)
(* Handlers and runs execute on one event loop, so the code between two    *)
(* suspending awaits (the transcription thread, the two HTTP calls to the  *)
(* model server) is one atomic step.                                       *)
(***************************************************************************)
EXTENDS Integers, Sequences, FiniteSets, TLC

\* ---- bounds -------------------------------------------------------------
MaxRuns == 2
MaxRequests == 3

\* ---- values -------------------------------------------------------------
None == "None"
NoTime == 0
\* the pipeline is followed on one row: handlers and runs address a row by its
\* id and touch no other row
NoteIds == {1}
NewTexts == {"t1", ""}
EditTexts == {"t2"}
AudioTexts == {"a1", ""}

Statuses == {"pending", "transcribing", "processing", "completed", "failed"}
DerivedFields == {"summary", "tag", "notification_timestamp", "embedding"}
SessionFields == DerivedFields \cup {"raw_transcript", "processing_status", "error_message"}

ErrNoInput == "No audio file or transcript available"
ErrNoTranscript == "No transcript available"
ErrTranscribe == "transcription failed"
ErrSummarize == "summarization failed"
ErrEmbed == "embedding failed"
ErrBroadcast == "broadcast failed"

VARIABLES notes, runs, finished, hist, requests, last

\* the notes table as the similarity queries read it, and the last call of
\* NoteService answered
VARIABLES stored, found

\* EventManager.user_queues, the streams opened by events_endpoint (each with
\* its queue and the frames it has yielded), and the broadcasts made so far
VARIABLES user_queues, streams, log

\* the scheduler's job store, the clock, the notification job that ran last,
\* and for each note id the run dates of the last two add_job calls
VARIABLES jobs, now, fired, scheduled

pipelineVars == <<notes, runs, finished, hist, requests, last>>
searchVars == <<stored, found>>
eventVars == <<user_queues, streams, log>>
schedVars == <<jobs, now, fired, scheduled>>
\* what the note handlers and the pipeline runs leave alone
aside == <<searchVars, eventVars>>
vars == <<pipelineVars, searchVars, eventVars, schedVars>>

\* ---- the Note row --------------------------------------------------------
Note(raw_transcript, audio) ==
    [user_id |-> 1,
     archived |-> FALSE,
     raw_transcript |-> raw_transcript,
     audio_path |-> audio,
     summary |-> None,
     tag |-> None,
     notification_timestamp |-> NoTime,
     embedding |-> None,
     processing_status |-> "pending",
     error_message |-> None]

Exists(n) == n \in DOMAIN notes

\* ---- external collaborators ----------------------------------------------
SummaryOf(t) == "sum:" \o t
TagOf(t) == "tag:" \o t
EmbeddingOf(t) == "emb:" \o t

\* generate_summary_and_tag: the result for an answer that parses as JSON, and
\* the placeholder returned for one that does not
SummaryResults(t, Times, answers) ==
    {[summary |-> SummaryOf(t), tag |-> TagOf(t), notification_timestamp |-> ts] :
        ts \in IF "json" \in answers THEN Times ELSE {}}
    \cup (IF "garbage" \in answers
          THEN {[summary |-> "", tag |-> None, notification_timestamp |-> NoTime]}
          ELSE {})

NoResult == [summary |-> None, tag |-> None, notification_timestamp |-> NoTime]

\* ---- ORM session ----------------------------------------------------------
\* the attributes a flush writes: those whose value differs from the loaded one
Dirty(loaded, cur) == {f \in SessionFields : cur[f] # loaded[f]}

Flush(row, loaded, cur) ==
    [f \in DOMAIN row |-> IF f \in Dirty(loaded, cur) THEN cur[f] ELSE row[f]]

\* ---- background runs -------------------------------------------------------
IdleRun ==
    [kind |-> "none", origin |-> "none", note |-> 0, pc |-> "idle",
     loaded |-> Note("", FALSE), result |-> NoResult,
     had_transcript |-> FALSE,
     persisted |-> <<>>, published |-> <<>>, wrote |-> {}, trace |-> <<>>,
     transcribed |-> FALSE, enriched |-> FALSE,
     outcome |-> "none", before |-> "none",
     overlapped |-> FALSE, edited |-> FALSE,
     fault |-> "none", surfaced |-> FALSE]

\* the background tasks that have not returned, oldest first
RunIds == 1..Len(runs)
CanRun == Len(runs) < MaxRuns

\* background_tasks.add_task
add_task(kind, origin, n) ==
    Append(runs, [IdleRun EXCEPT !.kind = kind, !.origin = origin,
                                 !.note = n, !.pc = "queued"])


Executing(run) == run.pc \in {"transcribe", "summarize", "embed"}

\* an owner write to note n lands while these runs are between their first
\* read of the row and their last commit
OwnerWrote(n, rs) ==
    [i \in DOMAIN rs |-> IF rs[i].note = n /\ Executing(rs[i])
                         THEN [rs[i] EXCEPT !.edited = TRUE] ELSE rs[i]]

\* history of a row: has it been completed since its transcript last changed
HistAfter(n, old, new, completed) ==
    [hist EXCEPT ![n] =
        [ever |-> hist[n].ever \/ completed,
         sinceEdit |-> IF completed THEN TRUE
                       ELSE IF new.raw_transcript # old.raw_transcript THEN FALSE
                       ELSE hist[n].sinceEdit]]

\* what a run does in order: a commit (the status the row holds after it, the
\* attributes it wrote), a broadcast (the event), the start of an external
\* call (the attributes assigned and not committed when it starts)
Did(act, what, dirty) == [act |-> act, what |-> what, dirty |-> dirty]

\* one commit of a run, the reload that follows it, and the broadcasts
Committed(run, row, cur, events) ==
    [run EXCEPT !.loaded = Flush(row, run.loaded, cur),
                !.persisted = IF "processing_status" \in Dirty(run.loaded, cur)
                              THEN Append(@, cur.processing_status) ELSE @,
                !.wrote = @ \cup Dirty(run.loaded, cur),
                !.before = row.processing_status,
                !.published = @ \o events,
                !.trace = @ \o <<Did("commit",
                                     Flush(row, run.loaded, cur).processing_status,
                                     Dirty(run.loaded, cur))>>
                            \o [k \in DOMAIN events |-> Did("broadcast", events[k], {})]]

\* the run awaits the external call `name`, its session holding `cur`
Call(run, name, cur) ==
    [run EXCEPT !.trace = Append(@, Did("call", name, Dirty(run.loaded, cur)))]

\* the request a handler has just served
Op(op, n, t, ok) ==
    [op |-> op, note |-> n, raw_transcript |-> t, summary |-> None, tag |-> None,
     ok |-> ok, events |-> <<>>]
\* a handler that broadcasts nothing
NotBroadcasting(request, events) == request
\* the same request, its handler having broadcast `events`
Broadcasting(request, events) == [request EXCEPT !.events = events]
NoOp == Op("none", 0, None, TRUE)

PipelineInit ==
    /\ notes = <<>>
    /\ runs = <<>>
    /\ finished = IdleRun
    /\ hist = [n \in NoteIds |-> [ever |-> FALSE, sinceEdit |-> FALSE]]
    /\ requests = 0
    /\ last = NoOp

\* no query has been served
NoQuery ==
    [op |-> "none", user_id |-> 0, note |-> 0, query |-> <<>>, skip |-> 0, limit |-> 0,
     outcome |-> "none", rows |-> <<>>, total |-> 0]

\* EventManager.__init__, no stream opened
EventInit ==
    /\ user_queues = <<>>
    /\ streams = <<>>
    /\ log = <<>>

NoJobRun ==
    [note |-> 0, run_date |-> 0, calls |-> <<>>, dispatched |-> FALSE, error |-> FALSE,
     settings |-> "none", raised |-> FALSE]

\* the scheduler started, no job added
SchedulerInit ==
    /\ jobs = {}
    /\ now = 0
    /\ fired = NoJobRun
    /\ scheduled = [n \in NoteIds |-> <<>>]

Init ==
    /\ PipelineInit
    /\ stored = <<>>
    /\ found = NoQuery
    /\ EventInit
    /\ SchedulerInit

\* one more request to the note handlers is served
Request ==
    /\ requests < MaxRequests
    /\ requests' = requests + 1
    /\ UNCHANGED <<aside, schedVars>>

\* ---- NoteService ------------------------------------------------------------
\* the id the database assigns to the next inserted row
NextId == Cardinality(DOMAIN notes) + 1

create_note(n, raw_transcript, audio) == notes @@ (n :> Note(raw_transcript, audio))

\* update_note without the reset of processing_status
update_note_keeps_status(row, raw_transcript, summary, tag) ==
    LET a == IF raw_transcript # None
             THEN [row EXCEPT !.raw_transcript = raw_transcript] ELSE row
        b == IF summary # None THEN [a EXCEPT !.summary = summary] ELSE a
    IN IF tag # None THEN [b EXCEPT !.tag = tag] ELSE b

\* update_note resetting processing_status whatever is supplied
update_note_always_pending(row, raw_transcript, summary, tag) ==
    LET a == IF raw_transcript # None
             THEN [row EXCEPT !.raw_transcript = raw_transcript] ELSE row
        b == IF summary # None THEN [a EXCEPT !.summary = summary] ELSE a
        c == IF tag # None THEN [b EXCEPT !.tag = tag] ELSE b
    IN [c EXCEPT !.processing_status = "pending"]

NoteService_update_note(row, raw_transcript, summary, tag) ==
    LET a == IF raw_transcript # None
             THEN [row EXCEPT !.raw_transcript = raw_transcript,
                              !.processing_status = "pending"]
             ELSE row
        b == IF summary # None THEN [a EXCEPT !.summary = summary] ELSE a
    IN IF tag # None THEN [b EXCEPT !.tag = tag] ELSE b

\* ---- handlers ---------------------------------------------------------------
\* POST /api/upload
upload_voice_note ==
    /\ Request
    /\ NextId \in NoteIds
    /\ CanRun
    /\ notes' = create_note(NextId, "", TRUE)
    /\ runs' = add_task("process_new_note", "upload", NextId)
    /\ last' = Broadcasting(Op("upload_voice_note", NextId, None, TRUE), <<"note-created">>)
    /\ finished' = IdleRun
    /\ UNCHANGED hist

\* POST /web/notes/text
create_text_note_web ==
    \E text \in NewTexts :
        /\ Request
        /\ NextId \in NoteIds
        /\ CanRun
        /\ notes' = create_note(NextId, text, FALSE)
        /\ runs' = add_task("process_new_note", "text", NextId)
        /\ last' = Broadcasting(Op("create_text_note_web", NextId, text, TRUE),
                                 <<"note-created">>)
        /\ finished' = IdleRun
        /\ UNCHANGED hist

\* the fields of the body (or form) of an update request
Body(raw_transcript, summary, tag) ==
    [raw_transcript |-> raw_transcript, summary |-> summary, tag |-> tag]

\* a schema that keeps the summary of the body
NoteUpdateWithSummary(body) == body

\* the NoteUpdate schema: raw_transcript and tag; any other field of the body
\* is ignored
NoteUpdate(body) == [body EXCEPT !.summary = None]

\* the three update endpoints, asked `body`: NoteService.update_note with the
\* arguments `data`, then the background task `kind` (if any) when a
\* transcript was supplied
Edit(op, n, body, data, kind) ==
    /\ Exists(n)
    /\ Request
    /\ (kind # "none" /\ data.raw_transcript # None) => CanRun
    /\ LET row == NoteService_update_note(notes[n], data.raw_transcript,
                                          data.summary, data.tag)
       IN /\ notes' = [notes EXCEPT ![n] = row]
          /\ hist' = HistAfter(n, notes[n], row, FALSE)
    /\ runs' = IF data.raw_transcript = None THEN runs
               ELSE IF kind = "none" THEN OwnerWrote(n, runs)
               ELSE OwnerWrote(n, add_task(kind, op, n))
    /\ last' = [Op(op, n, body.raw_transcript, TRUE)
                   EXCEPT !.summary = body.summary, !.tag = body.tag]
    /\ finished' = IdleRun

\* PATCH /api/notes/{id}
update_note(Ts, Ss, Tags) ==
    \E n \in NoteIds, t \in Ts, s \in Ss, tag \in Tags :
        Edit("update_note", n, Body(t, s, tag), NoteUpdate(Body(t, s, tag)),
             "reprocess_note")

\* PATCH /web/notes/{id}, routes/web/notes.py
update_note_web(Ts, Ss, Tags) ==
    \E n \in NoteIds, t \in Ts, s \in Ss, tag \in Tags :
        Edit("update_note_web", n, Body(t, s, tag), Body(t, s, tag), "none")

\* PATCH /web/notes/{id}, routes/web.py
update_note_web_legacy(Ts, Ss, Tags) ==
    \E n \in NoteIds, t \in Ts, s \in Ss, tag \in Tags :
        Edit("update_note_web_legacy", n, Body(t, s, tag), Body(t, s, tag),
             "process_new_note")

\* a retry that does not look at processing_status
RetryAnyStatus(kind) ==
    \E n \in NoteIds :
        /\ Request
        /\ Exists(n)
        /\ finished' = IdleRun
        /\ CanRun
        /\ notes' = [notes EXCEPT ![n].processing_status = "processing",
                                  ![n].error_message = None]
        /\ runs' = OwnerWrote(n, add_task(kind, "retry_failed_note", n))
        /\ last' = Broadcasting(Op("retry_failed_note", n, None,
                                   notes[n].processing_status = "failed"),
                                <<"processing">>)
        /\ UNCHANGED hist

\* POST /api/notes/{id}/retry, starting the background task `kind`
Retry(kind) ==
    \E n \in NoteIds :
        /\ Request
        /\ Exists(n)
        /\ finished' = IdleRun
        /\ IF notes[n].processing_status # "failed"
           THEN /\ last' = Op("retry_failed_note", n, None, FALSE)
                /\ UNCHANGED <<notes, runs, hist>>
           ELSE /\ CanRun
                /\ notes' = [notes EXCEPT ![n].processing_status = "processing",
                                          ![n].error_message = None]
                /\ runs' = OwnerWrote(n, add_task(kind, "retry_failed_note", n))
                /\ last' = Broadcasting(Op("retry_failed_note", n, None, TRUE),
                                        <<"processing">>)
                /\ UNCHANGED hist

\* retry scheduling the task of a new upload
retry_as_new_note == Retry("process_new_note")

retry_failed_note == Retry("reprocess_note")

\* ---- pipeline runs ------------------------------------------------------------
\* an except branch that finds the summary already assigned to the note
FailedWithSummary(run, row, cur, msg) ==
    [Committed(run, row,
               [cur EXCEPT !.processing_status = "failed",
                           !.error_message = msg,
                           !.summary = IF run.result = NoResult THEN @ ELSE run.result.summary,
                           !.tag = IF run.result = NoResult THEN @ ELSE run.result.tag],
               <<"failed">>)
        EXCEPT !.pc = "done", !.outcome = "failed"]

\* an except branch that also announces the note as processed
FailedPublishingProcessed(run, row, cur, msg) ==
    [Committed(run, row, [cur EXCEPT !.processing_status = "failed",
                                     !.error_message = msg],
               <<"failed", "note-processed">>)
        EXCEPT !.pc = "done", !.outcome = "failed"]

\* an except branch that logs the exception and commits nothing
FailedNotCommitted(run, row, cur, msg) ==
    [run EXCEPT !.pc = "done", !.outcome = "failed"]

\* the except branch: mark the note failed, commit, broadcast
Failed(run, row, cur, msg) ==
    [Committed(run, row, [cur EXCEPT !.processing_status = "failed",
                                     !.error_message = msg], <<"failed">>)
        EXCEPT !.pc = "done", !.outcome = "failed"]

\* the call of generate_summary_and_tag ahead of the commit of `processing`
ToProcessingCallFirst(run, row, cur) ==
    LET note == [cur EXCEPT !.processing_status = "processing"]
    IN [Committed(Call(run, "generate_summary_and_tag", note), row, note, <<"processing">>)
           EXCEPT !.pc = "summarize", !.enriched = TRUE]

\* commit `processing`, broadcast it, and call generate_summary_and_tag
ToProcessing(run, row, cur) ==
    LET run1 == Committed(run, row, [cur EXCEPT !.processing_status = "processing"],
                          <<"processing">>)
    IN [Call(run1, "generate_summary_and_tag", run1.loaded)
           EXCEPT !.pc = "summarize", !.enriched = TRUE]

\* session.get at the start of a run
Loaded(run, row) ==
    [run EXCEPT !.loaded = row, !.had_transcript = (row.raw_transcript # "")]

\* ---- notification jobs ----------------------------------------------------------
\* the run dates of the last two add_job calls for a note, run_date the latest
Called(calls, run_date) ==
    IF calls = <<>> THEN <<run_date>> ELSE <<calls[Len(calls)], run_date>>

\* f"note_notification_{note.id}"
JobId(n) == <<"note_notification", n>>

\* add_job refused for an id already in the store
add_job_keeping_existing(id, run_date, n) ==
    IF \E j \in jobs : j.id = id
    THEN jobs
    ELSE jobs \cup {[id |-> id, run_date |-> run_date, note |-> n]}

\* scheduler.add_job(send_note_notification, "date", run_date, args=[n], id,
\* replace_existing=True)
add_job(id, run_date, n) ==
    {j \in jobs : j.id # id} \cup {[id |-> id, run_date |-> run_date, note |-> n]}

\* scheduling whenever a timestamp is set
schedule_any_timestamp(n, note) ==
    IF note.notification_timestamp # NoTime
    THEN /\ jobs' = add_job(JobId(n), note.notification_timestamp, n)
         /\ scheduled' = [scheduled EXCEPT ![n] = Called(@, note.notification_timestamp)]
    ELSE UNCHANGED <<jobs, scheduled>>

\* _schedule_notification_if_needed(note), the scheduler running
schedule_notification_if_needed(n, note) ==
    IF note.notification_timestamp # NoTime /\ note.notification_timestamp > now
    THEN /\ jobs' = add_job(JobId(n), note.notification_timestamp, n)
         /\ scheduled' = [scheduled EXCEPT ![n] = Called(@, note.notification_timestamp)]
    ELSE UNCHANGED <<jobs, scheduled>>

\* one step of run r, ending in `run` and leaving the row as `row`; add_job
\* returns if add_job_ok and raises otherwise
StepWith(r, run, row, add_job_ok) ==
    LET n == runs[r].note
        peers == {i \in RunIds \ {r} : runs[i].note = n /\ Executing(runs[i])}
        me == [run EXCEPT !.overlapped = @ \/ peers # {}]
        rs == [i \in RunIds |->
                  IF i = r THEN me
                  ELSE IF i \in peers
                  THEN [runs[i] EXCEPT !.overlapped = TRUE,
                                       !.edited = @ \/ (me.pc = "done" /\ me.edited)]
                  ELSE runs[i]]
        completed == \E k \in (Len(runs[r].persisted) + 1)..Len(run.persisted) :
                         run.persisted[k] = "completed"
    IN
    /\ notes' = [notes EXCEPT ![n] = row]
    /\ runs' = IF me.pc = "done"
               THEN [i \in 1..(Len(rs) - 1) |-> IF i < r THEN rs[i] ELSE rs[i + 1]]
               ELSE rs
    /\ finished' = IF me.pc = "done" THEN me ELSE IdleRun
    /\ hist' = HistAfter(n, notes[n], row, completed)
    /\ last' = NoOp
    /\ IF completed /\ add_job_ok
       THEN schedule_notification_if_needed(n, row)
       ELSE UNCHANGED <<jobs, scheduled>>
    /\ UNCHANGED <<requests, aside, now, fired>>

\* the same, the scheduler accepting the job
Step(r, run, row) == StepWith(r, run, row, TRUE)

\* process_new_note up to its first suspending await
process_new_note(r) ==
    /\ runs[r].kind = "process_new_note"
    /\ runs[r].pc = "queued"
    /\ Exists(runs[r].note)
    /\ LET row == notes[runs[r].note]
           run1 == Committed(Loaded(runs[r], row), row,
                             [row EXCEPT !.processing_status = "transcribing"],
                             <<"transcribing">>)
           note == run1.loaded
           run2 == IF note.audio_path
                   THEN [Call(run1, "transcribe_file", note)
                            EXCEPT !.pc = "transcribe", !.transcribed = TRUE]
                   ELSE IF note.raw_transcript = ""
                   THEN Failed(run1, note, note, ErrNoInput)
                   ELSE ToProcessing(run1, note, note)
       IN Step(r, run2, run2.loaded)

\* transcription_service.transcribe_file returns or raises
transcribe_file(r) ==
    /\ runs[r].pc = "transcribe"
    /\ Exists(runs[r].note)
    /\ \E transcript \in AudioTexts \cup {None} :
        LET run == runs[r]
            row == notes[run.note]
            run1 == IF transcript = None
                    THEN Failed(run, row, run.loaded, ErrTranscribe)
                    ELSE ToProcessing(run, row,
                                      [run.loaded EXCEPT !.raw_transcript = transcript])
        IN Step(r, run1, run1.loaded)

\* reprocess_note up to its first suspending await
reprocess_note(r) ==
    /\ runs[r].kind = "reprocess_note"
    /\ runs[r].pc = "queued"
    /\ Exists(runs[r].note)
    /\ LET row == notes[runs[r].note]
           run0 == Loaded(runs[r], row)
           run1 == IF row.raw_transcript = ""
                   THEN [Committed(run0, row,
                                   [row EXCEPT !.processing_status = "failed",
                                               !.error_message = ErrNoTranscript],
                                   <<>>)
                            EXCEPT !.pc = "done", !.outcome = "failed"]
                   ELSE ToProcessing(run0, row, row)
       IN Step(r, run1, run1.loaded)

\* _process_note_ai: generate_summary_and_tag returns or raises
generate_summary_and_tag(r, Times, answers) ==
    /\ runs[r].pc = "summarize"
    /\ Exists(runs[r].note)
    /\ LET run == runs[r]
           row == notes[run.note]
           failed == Failed(run, row, run.loaded, ErrSummarize)
       IN \/ \E res \in SummaryResults(run.loaded.raw_transcript, Times, answers) :
                 Step(r, [Call(run, "generate_embedding", run.loaded)
                             EXCEPT !.result = res, !.pc = "embed"], row)
          \/ Step(r, failed, failed.loaded)

\* the assignments without the one of processing_status
EnrichedNotCompleted(note, result) ==
    [note EXCEPT !.summary = result.summary,
                 !.tag = result.tag,
                 !.notification_timestamp = result.notification_timestamp,
                 !.embedding = EmbeddingOf(note.raw_transcript),
                 !.error_message = None]

\* the values a run assigns once _process_note_ai has returned
Enriched(note, result) ==
    [note EXCEPT !.summary = result.summary,
                 !.tag = result.tag,
                 !.notification_timestamp = result.notification_timestamp,
                 !.embedding = EmbeddingOf(note.raw_transcript),
                 !.processing_status = "completed",
                 !.error_message = None]

\* _process_note_ai: generate_embedding returns or raises, and the run finishes
generate_embedding(r) ==
    /\ runs[r].pc = "embed"
    /\ Exists(runs[r].note)
    /\ LET run == runs[r]
           row == notes[run.note]
           completed == [Committed(run, row, Enriched(run.loaded, run.result),
                                   <<"completed", "note-processed">>)
                            EXCEPT !.pc = "done", !.outcome = "completed"]
           failed == Failed(run, row, run.loaded, ErrEmbed)
       IN \/ Step(r, completed, completed.loaded)
          \/ Step(r, failed, failed.loaded)

\* the API handlers, the text-note form, and the runs they start
Next ==
    \/ upload_voice_note
    \/ create_text_note_web
    \/ update_note(EditTexts \cup {"", None}, {None}, {None})
    \/ retry_failed_note
    \/ \E r \in RunIds : process_new_note(r)
    \/ \E r \in RunIds : transcribe_file(r)
    \/ \E r \in RunIds : reprocess_note(r)
    \/ \E r \in RunIds : generate_summary_and_tag(r, {1}, {"json"})
    \/ \E r \in RunIds : generate_embedding(r)

Spec == Init /\ [][Next]_vars

\* the same with the transcript edits of the web forms
NextWeb ==
    \/ Next
    \/ update_note_web(EditTexts \cup {None}, {None}, {None})
    \/ update_note_web_legacy(EditTexts \cup {None}, {None}, {None})

SpecWeb == Init /\ [][NextWeb]_vars

\* ---- transcript edits ------------------------------------------------------------
\* a text note, its edits through the three update endpoints, and the runs
NextEdit ==
    \/ create_text_note_web
    \/ update_note(EditTexts, {None}, {None})
    \/ update_note_web(EditTexts, {None}, {None})
    \/ update_note_web_legacy(EditTexts, {None}, {None})
    \/ \E r \in RunIds : process_new_note(r)
    \/ \E r \in RunIds : reprocess_note(r)
    \/ \E r \in RunIds : generate_summary_and_tag(r, {1}, {"json"})
    \/ \E r \in RunIds : generate_embedding(r)

SpecEdit == Init /\ [][NextEdit]_vars

\* ---- answers of the summarization model --------------------------------------------
\* notes, retries and the runs, the model answering JSON or text that does
\* not parse
NextEnrich ==
    \/ upload_voice_note
    \/ create_text_note_web
    \/ retry_failed_note
    \/ \E r \in RunIds : process_new_note(r)
    \/ \E r \in RunIds : transcribe_file(r)
    \/ \E r \in RunIds : reprocess_note(r)
    \/ \E r \in RunIds : generate_summary_and_tag(r, {1}, {"json", "garbage"})
    \/ \E r \in RunIds : generate_embedding(r)

SpecEnrich == Init /\ [][NextEnrich]_vars

\* a step of a background task: the event loop runs every task it was given,
\* and every awaited call returns or raises
RunStep ==
    \/ \E r \in RunIds : process_new_note(r)
    \/ \E r \in RunIds : transcribe_file(r)
    \/ \E r \in RunIds : reprocess_note(r)
    \/ \E r \in RunIds : generate_summary_and_tag(r, {1}, {"json", "garbage"})
    \/ \E r \in RunIds : generate_embedding(r)

SpecTerminates == Init /\ [][NextEnrich]_vars /\ WF_vars(RunStep)

\* ---- updates of summary and tag ---------------------------------------------------
EditSummaries == {None, "s2"}
EditTags == {None, "g2"}

\* a text note, the API update with any body, and the runs
NextUpdate ==
    \/ create_text_note_web
    \/ update_note(EditTexts \cup {None}, EditSummaries, EditTags)
    \/ \E r \in RunIds : process_new_note(r)
    \/ \E r \in RunIds : reprocess_note(r)
    \/ \E r \in RunIds : generate_summary_and_tag(r, {1}, {"json"})
    \/ \E r \in RunIds : generate_embedding(r)

SpecUpdate == Init /\ [][NextUpdate]_vars


\* ---- deletion, the clock and the scheduler -------------------------------------
MaxTime == 2
MaxNotifyRequests == 2

\* DELETE /api/notes/{id}: NoteService.delete_note, then the broadcast; the
\* scheduler is not touched
delete_note ==
    \E n \in NoteIds :
        /\ Request
        /\ finished' = IdleRun
        /\ IF Exists(n)
           THEN /\ notes' = [m \in DOMAIN notes \ {n} |-> notes[m]]
                /\ hist' = [hist EXCEPT ![n] = [ever |-> FALSE, sinceEdit |-> FALSE]]
                /\ runs' = OwnerWrote(n, runs)
                /\ last' = Broadcasting(Op("delete_note", n, None, TRUE), <<"note-deleted">>)
           ELSE /\ last' = Op("delete_note", n, None, FALSE)
                /\ UNCHANGED <<notes, runs, hist>>

\* a run whose row is gone: session.get returns nothing and the task returns,
\* or the next commit of a run in flight matches no row and raises
note_missing(r) ==
    /\ runs[r].pc # "done"
    /\ ~Exists(runs[r].note)
    /\ runs' = [i \in 1..(Len(runs) - 1) |-> IF i < r THEN runs[i] ELSE runs[i + 1]]
    /\ finished' = [runs[r] EXCEPT !.pc = "done", !.outcome = "missing"]
    /\ last' = NoOp
    /\ UNCHANGED <<notes, hist, requests, aside, schedVars>>

\* time passes
Tick ==
    /\ now < MaxTime
    /\ now' = now + 1
    /\ finished' = IdleRun
    /\ last' = NoOp
    /\ UNCHANGED <<notes, runs, hist, requests, aside, jobs, fired, scheduled>>

\* the row of user settings the owner may have: none, one without the Home
\* Assistant url, token or device, one with all three
SettingsRows == {"none", "unconfigured", "configured"}

\* a task that calls Home Assistant without looking for the note
NotifiedUnchecked(j, settings) ==
    [note |-> j.note, run_date |-> j.run_date, calls |-> scheduled[j.note],
     dispatched |-> settings = "configured",
     error |-> FALSE, settings |-> settings, raised |-> FALSE]

\* send_note_notification(note_id) returning: it has called Home Assistant if
\* the note exists and its owner's settings row holds url, token and device
Notified(j, settings) ==
    [note |-> j.note, run_date |-> j.run_date, calls |-> scheduled[j.note],
     dispatched |-> Exists(j.note) /\ settings = "configured",
     error |-> FALSE, settings |-> settings, raised |-> FALSE]

\* a date job is due: the scheduler removes it and runs
\* send_note_notification(note_id)
send_note_notification ==
    \E j \in jobs, settings \in SettingsRows :
        /\ j.run_date <= now
        /\ jobs' = jobs \ {j}
        /\ fired' = Notified(j, settings)
        /\ finished' = IdleRun
        /\ last' = NoOp
        /\ UNCHANGED <<notes, runs, hist, requests, aside, now, scheduled>>

\* a text note, its edits and its deletion, the runs, the clock and the jobs
NextNotify ==
    \/ requests < MaxNotifyRequests /\ create_text_note_web
    \/ requests < MaxNotifyRequests /\ update_note(EditTexts, {None}, {None})
    \/ requests < MaxNotifyRequests /\ delete_note
    \/ \E r \in RunIds : process_new_note(r)
    \/ \E r \in RunIds : reprocess_note(r)
    \/ \E r \in RunIds : generate_summary_and_tag(r, {NoTime, 1, 2}, {"json"})
    \/ \E r \in RunIds : generate_embedding(r)
    \/ \E r \in RunIds : note_missing(r)
    \/ Tick
    \/ send_note_notification

SpecNotify == Init /\ [][NextNotify]_vars

\* ---- failing collaborators -----------------------------------------------------------
\* the except branch entered from a broadcast that raised: mark the note
\* failed and commit; the broadcast of `failed` returns, or raises again and
\* the exception leaves the task
BroadcastCaught(run, row, cur, msg) ==
    {[Committed(run, row, [cur EXCEPT !.processing_status = "failed",
                                      !.error_message = msg],
                IF again THEN <<>> ELSE <<"failed">>)
         EXCEPT !.pc = "done", !.outcome = "failed", !.surfaced = again] :
        again \in BOOLEAN}

\* _process_note_ai has returned and the run commits `completed`; the
\* broadcast of `completed` raises inside the try block
broadcast_raises(r) ==
    /\ runs[r].pc = "embed"
    /\ Exists(runs[r].note)
    /\ LET run == runs[r]
           row == notes[run.note]
           run1 == [Committed(run, row, Enriched(run.loaded, run.result), <<>>)
                       EXCEPT !.fault = "broadcast"]
       IN \E run2 \in BroadcastCaught(run1, run1.loaded, run1.loaded, ErrBroadcast) :
             Step(r, run2, run2.loaded)

\* an except branch around add_job that marks the note failed
SchedulingFatal(run, row, cur) ==
    [Committed(run, row, [cur EXCEPT !.processing_status = "failed",
                                     !.error_message = "scheduling failed"],
               <<"failed">>)
        EXCEPT !.pc = "done", !.outcome = "failed"]

\* _schedule_notification_if_needed catching what add_job raised: the run goes
\* on to its broadcasts
SchedulingCaught(run, row, cur) ==
    [run EXCEPT !.published = @ \o <<"completed", "note-processed">>,
                !.trace = @ \o <<Did("broadcast", "completed", {}),
                                 Did("broadcast", "note-processed", {})>>,
                !.pc = "done", !.outcome = "completed"]

\* the run commits `completed` with a timestamp in the future, and add_job
\* raises (or the scheduler is not initialized)
add_job_raises(r) ==
    /\ runs[r].pc = "embed"
    /\ Exists(runs[r].note)
    /\ runs[r].result.notification_timestamp > now
    /\ LET run == runs[r]
           row == notes[run.note]
           run1 == [Committed(run, row, Enriched(run.loaded, run.result), <<>>)
                       EXCEPT !.fault = "add_job"]
           run2 == SchedulingCaught(run1, run1.loaded, run1.loaded)
       IN StepWith(r, run2, run2.loaded, FALSE)

\* a handler of the Home Assistant error that marks the note failed
DispatchFatal(n) ==
    [notes EXCEPT ![n].processing_status = "failed",
                  ![n].error_message = "notification failed"]

\* send_note_notification logging the error of the Home Assistant call
DispatchCaught(n) == notes

\* a date job is due and the call of Home Assistant raises
send_notification_raises ==
    \E j \in jobs :
        /\ j.run_date <= now
        /\ Exists(j.note)
        /\ jobs' = jobs \ {j}
        /\ fired' = [Notified(j, "configured") EXCEPT !.dispatched = FALSE,
                                                        !.error = TRUE]
        /\ notes' = DispatchCaught(j.note)
        /\ finished' = IdleRun
        /\ last' = NoOp
        /\ UNCHANGED <<runs, hist, requests, aside, now, scheduled>>

\* a text note and its runs, the clock and the jobs, with the event manager,
\* the scheduler and Home Assistant failing at times
NextFault ==
    \/ create_text_note_web
    \/ \E r \in RunIds : process_new_note(r)
    \/ \E r \in RunIds : generate_summary_and_tag(r, {NoTime, 1, 2}, {"json"})
    \/ \E r \in RunIds : generate_embedding(r)
    \/ \E r \in RunIds : broadcast_raises(r)
    \/ \E r \in RunIds : add_job_raises(r)
    \/ Tick
    \/ send_note_notification
    \/ send_notification_raises

SpecFault == Init /\ [][NextFault]_vars

\* ---- similarity search --------------------------------------------------------
MaxStored == 2

Owners == {1, 2}
\* the values of the limit parameter
Limits == {1, 2}
StoredIds == 1..MaxStored
\* float32 arrays of dimension 0, 1 and 2
Vectors == {<<>>, <<1>>, <<1, 1>>, <<1, 2>>, <<2, 1>>}
\* the embedding column: NULL, or the bytes of a serialized array
Null == [null |-> TRUE, floats |-> <<>>]
serialize_vector(v) == [null |-> FALSE, floats |-> v]
Embeddings == {Null} \cup {serialize_vector(v) : v \in Vectors}
\* length(embedding): four bytes per float32
length(e) == 4 * Len(e.floats)

StoredNotes == [user_id : Owners, archived : BOOLEAN, embedding : Embeddings]
Stores == UNION {[1..k -> StoredNotes] : k \in 0..MaxStored}

Dot(a, b) ==
    LET RECURSIVE Sum(_)
        Sum(i) == IF i = 0 THEN 0
                  ELSE (IF i \in DOMAIN b THEN a[i] * b[i] ELSE 0) + Sum(i - 1)
    IN Sum(Len(a))

\* vec_distance_cosine(a, q) <= vec_distance_cosine(b, q), for arrays of the
\* length of q with positive components: cos(a, q) >= cos(b, q)
NotFarther(a, b, q) ==
    Dot(a, q) * Dot(a, q) * Dot(b, b) >= Dot(b, q) * Dot(b, q) * Dot(a, a)

\* the WHERE clause without the comparison of lengths
EligibleAnyLength(user_id, query_vec, note_id) ==
    {i \in DOMAIN stored :
        /\ stored[i].user_id = user_id
        /\ ~stored[i].archived
        /\ ~stored[i].embedding.null
        /\ i # note_id}

\* the WHERE clause of both queries (note_id is 0 for search_notes_semantic)
Eligible(user_id, query_vec, note_id) ==
    {i \in DOMAIN stored :
        /\ stored[i].user_id = user_id
        /\ ~stored[i].archived
        /\ ~stored[i].embedding.null
        /\ i # note_id
        /\ length(stored[i].embedding) = length(query_vec)}

\* LIMIT :limit without the ORDER BY: the first rows in the order of their ids
FirstRows(ids, q, limit) ==
    LET k == IF Cardinality(ids) < limit THEN Cardinality(ids) ELSE limit
    IN {rows \in [1..k -> ids] :
           /\ \A i, j \in 1..k : i < j => rows[i] < rows[j]
           /\ \A i \in 1..k : \A x \in ids \ {rows[j] : j \in 1..k} : rows[i] < x}

\* ORDER BY distance ASC LIMIT :limit over the rows `ids`; rows at the same
\* distance come in any order
Nearest(ids, q, limit) ==
    LET k == IF Cardinality(ids) < limit THEN Cardinality(ids) ELSE limit
        vec(i) == stored[i].embedding.floats
    IN {rows \in [1..k -> ids] :
           /\ \A i, j \in 1..k : i < j =>
                 /\ rows[i] # rows[j]
                 /\ NotFarther(vec(rows[i]), vec(rows[j]), q)
           /\ \A i \in 1..k : \A x \in ids \ {rows[j] : j \in 1..k} :
                 NotFarther(vec(rows[i]), vec(x), q)}

Query(op, user_id, note_id, query_vec, limit, outcome, rows) ==
    [NoQuery EXCEPT !.op = op, !.user_id = user_id, !.note = note_id,
                    !.query = query_vec.floats, !.limit = limit,
                    !.outcome = outcome, !.rows = rows]

\* the SELECT of both queries: sqlite-vec refuses a zero-length vector when it
\* computes the distance of a row, which it does for the rows the WHERE
\* clause lets through
Select(op, user_id, note_id, query_vec, limit) ==
    LET ids == Eligible(user_id, query_vec, note_id)
    IN IF length(query_vec) = 0 /\ ids # {}
       THEN found' = Query(op, user_id, note_id, query_vec, limit, "error", <<>>)
       ELSE \E rows \in Nearest(ids, query_vec.floats, limit) :
               found' = Query(op, user_id, note_id, query_vec, limit, "ok", rows)

get_similar_notes ==
    \E user_id \in Owners, note_id \in StoredIds, limit \in Limits :
        /\ IF note_id \notin DOMAIN stored \/ stored[note_id].user_id # user_id
           THEN found' = Query("get_similar_notes", user_id, note_id, Null, limit,
                               "NotFoundError", <<>>)
           ELSE LET embedding == stored[note_id].embedding
                IN IF embedding.null \/ length(embedding) = 0
                   THEN found' = Query("get_similar_notes", user_id, note_id,
                                       embedding, limit, "ok", <<>>)
                   ELSE Select("get_similar_notes", user_id, note_id, embedding, limit)
        /\ UNCHANGED <<pipelineVars, stored, eventVars, schedVars>>

search_notes_semantic ==
    \E user_id \in Owners, v \in Vectors, limit \in Limits :
        /\ Select("search_notes_semantic", user_id, 0, serialize_vector(v), limit)
        /\ UNCHANGED <<pipelineVars, stored, eventVars, schedVars>>

InitSearch ==
    /\ PipelineInit
    /\ stored \in Stores
    /\ found = NoQuery
    /\ EventInit
    /\ SchedulerInit

NextSearch == get_similar_notes \/ search_notes_semantic

SpecSearch == InitSearch /\ [][NextSearch]_vars

\* ---- NoteService: lookup, listing, archiving -------------------------------------
MaxNotes == 2

\* the ids the calls are made with: those of the rows and one never assigned
CallIds == 1..(MaxNotes + 1)
\* the values of the skip parameter
Skips == {0, 1, 2}
ServiceTags == {None, "g"}

\* the tables the calls start from: the rows 1..k of two owners
Tables ==
    UNION {[1..k -> {[Note("t1", FALSE) EXCEPT !.user_id = u, !.archived = a,
                                           !.processing_status = "completed"] :
                        u \in Owners, a \in BOOLEAN}] : k \in 0..MaxNotes}

\* the answer to a call of NoteService
Answer(op, user_id, note_id, outcome, rows) ==
    [NoQuery EXCEPT !.op = op, !.user_id = user_id, !.note = note_id,
                    !.outcome = outcome, !.rows = rows]

\* a lookup that does not compare the owner
get_note_any_owner(note_id, user_id) == note_id \in DOMAIN notes

\* NoteService.get_note finds the note
get_note(note_id, user_id) ==
    note_id \in DOMAIN notes /\ notes[note_id].user_id = user_id

\* the ids in S, the latest created first: created_at is the time of the
\* insert, which grows with the id
Latest(S) ==
    LET RECURSIVE Desc(_)
        Desc(T) == IF T = {} THEN <<>>
                   ELSE LET m == CHOOSE x \in T : \A y \in T : y <= x
                        IN <<m>> \o Desc(T \ {m})
    IN Desc(S)

\* OFFSET skip LIMIT limit
Page(all, skip, limit) ==
    [k \in 1..(IF Len(all) - skip < 0 THEN 0
               ELSE IF Len(all) - skip < limit THEN Len(all) - skip ELSE limit)
        |-> all[skip + k]]

\* a listing that leaves the archived notes in
list_notes_with_archived(user_id, skip, limit) ==
    LET ids == {n \in DOMAIN notes : notes[n].user_id = user_id}
    IN [rows |-> Page(Latest(ids), skip, limit), total |-> Cardinality(ids)]

\* NoteService.list_notes: the count, then the page
list_notes(user_id, skip, limit) ==
    LET ids == {n \in DOMAIN notes : notes[n].user_id = user_id /\ ~notes[n].archived}
    IN [rows |-> Page(Latest(ids), skip, limit), total |-> Cardinality(ids)]

\* the calls change the table and nothing else of the pipeline
ServiceCall ==
    UNCHANGED <<runs, finished, hist, requests, last, stored, eventVars, schedVars>>

NoteService_get_note ==
    \E user_id \in Owners, note_id \in CallIds :
        /\ found' = IF get_note(note_id, user_id)
                    THEN Answer("get_note", user_id, note_id, "ok", <<note_id>>)
                    ELSE Answer("get_note", user_id, note_id, "NotFoundError", <<>>)
        /\ UNCHANGED notes
        /\ ServiceCall

NoteService_list_notes ==
    \E user_id \in Owners, skip \in Skips, limit \in Limits :
        /\ found' = [Answer("list_notes", user_id, 0, "ok",
                            list_notes(user_id, skip, limit).rows)
                        EXCEPT !.skip = skip, !.limit = limit,
                               !.total = list_notes(user_id, skip, limit).total]
        /\ UNCHANGED notes
        /\ ServiceCall

\* a call that changes the row it finds to `row`
Change(op, user_id, note_id, row) ==
    /\ IF get_note(note_id, user_id)
       THEN /\ notes' = [notes EXCEPT ![note_id] = row]
            /\ found' = Answer(op, user_id, note_id, "ok", <<note_id>>)
       ELSE /\ found' = Answer(op, user_id, note_id, "NotFoundError", <<>>)
            /\ UNCHANGED notes
    /\ ServiceCall

\* NoteService.update_note, called with a tag or with nothing to change
NoteService_update ==
    \E user_id \in Owners, note_id \in CallIds, tag \in ServiceTags :
        Change("update_note", user_id, note_id,
               IF note_id \in DOMAIN notes
               THEN NoteService_update_note(notes[note_id], None, None, tag)
               ELSE Note("", FALSE))

NoteService_archive_note ==
    \E user_id \in Owners, note_id \in CallIds :
        Change("archive_note", user_id, note_id,
               IF note_id \in DOMAIN notes
               THEN [notes[note_id] EXCEPT !.archived = TRUE] ELSE Note("", FALSE))

NoteService_unarchive_note ==
    \E user_id \in Owners, note_id \in CallIds :
        Change("unarchive_note", user_id, note_id,
               IF note_id \in DOMAIN notes
               THEN [notes[note_id] EXCEPT !.archived = FALSE] ELSE Note("", FALSE))

NoteService_delete_note ==
    \E user_id \in Owners, note_id \in CallIds :
        /\ IF get_note(note_id, user_id)
           THEN /\ notes' = [m \in DOMAIN notes \ {note_id} |-> notes[m]]
                /\ found' = Answer("delete_note", user_id, note_id, "ok", <<>>)
           ELSE /\ found' = Answer("delete_note", user_id, note_id, "NotFoundError", <<>>)
                /\ UNCHANGED notes
        /\ ServiceCall

InitService ==
    /\ notes \in Tables
    /\ runs = <<>>
    /\ finished = IdleRun
    /\ hist = [n \in NoteIds |-> [ever |-> FALSE, sinceEdit |-> FALSE]]
    /\ requests = 0
    /\ last = NoOp
    /\ stored = <<>>
    /\ found = NoQuery
    /\ EventInit
    /\ SchedulerInit

NextService ==
    \/ NoteService_get_note
    \/ NoteService_list_notes
    \/ NoteService_update
    \/ NoteService_archive_note
    \/ NoteService_unarchive_note
    \/ NoteService_delete_note

SpecService == InitService /\ [][NextService]_vars

\* ---- EventManager -------------------------------------------------------------
MaxStreams == 2
MaxBroadcasts == 2

EventNames == {"note-created"}
\* ": ping\n\n"
Ping == [event |-> "ping", data |-> 0]
\* f"event: {event_name}\ndata: {data}\n\n"
Message(event_name, data) == [event |-> event_name, data |-> data]

StreamIds == DOMAIN streams
\* the streams whose generator is between its registration and its finally
Live(user_id) == {s \in StreamIds : streams[s].pc = "open" /\ streams[s].user_id = user_id}

\* GET /api/events: the response holds the generator subscribe(user_id), of
\* which no line has run yet
events_endpoint ==
    \E user_id \in Owners :
        /\ Len(streams) < MaxStreams
        /\ streams' = Append(streams, [user_id |-> user_id, pc |-> "created",
                                       queue |-> <<>>, frames |-> <<>>,
                                       since |-> 0])
        /\ UNCHANGED <<user_queues, log, pipelineVars, searchVars, schedVars>>

\* the registration of a queue for user_id
Registered(s, user_id) ==
    IF user_id \in DOMAIN user_queues
    THEN [user_queues EXCEPT ![user_id] = @ \cup {s}]
    ELSE user_queues @@ (user_id :> {s})

\* a subscription that hands the earlier broadcasts to the new queue
subscribe_replaying(s) ==
    /\ streams[s].pc = "created"
    /\ user_queues' = Registered(s, streams[s].user_id)
    /\ streams' = [streams EXCEPT ![s].pc = "open",
                                  ![s].frames = <<Ping>>,
                                  ![s].queue =
                                      LET mine == SelectSeq(log, LAMBDA b :
                                                      b.user_id = streams[s].user_id)
                                      IN [i \in DOMAIN mine |-> mine[i].message],
                                  ![s].since = Len(log)]
    /\ UNCHANGED <<log, pipelineVars, searchVars, schedVars>>

\* a subscription that yields no ping
subscribe_without_ping(s) ==
    /\ streams[s].pc = "created"
    /\ user_queues' = Registered(s, streams[s].user_id)
    /\ streams' = [streams EXCEPT ![s].pc = "open", ![s].since = Len(log)]
    /\ UNCHANGED <<log, pipelineVars, searchVars, schedVars>>

\* the first iteration of the stream: subscribe up to `yield ": ping"`
subscribe(s) ==
    /\ streams[s].pc = "created"
    /\ user_queues' = Registered(s, streams[s].user_id)
    /\ streams' = [streams EXCEPT ![s].pc = "open",
                                  ![s].frames = <<Ping>>,
                                  ![s].since = Len(log)]
    /\ UNCHANGED <<log, pipelineVars, searchVars, schedVars>>

\* a queue that hands out its newest message first
queue_get_newest(s) ==
    /\ streams[s].pc = "open"
    /\ streams[s].queue # <<>>
    /\ LET q == streams[s].queue
       IN streams' = [streams EXCEPT ![s].frames = Append(@, q[Len(q)]),
                                     ![s].queue = SubSeq(q, 1, Len(q) - 1)]
    /\ UNCHANGED <<user_queues, log, pipelineVars, searchVars, schedVars>>

\* a later iteration: queue.get() returns and the frame is yielded
queue_get(s) ==
    /\ streams[s].pc = "open"
    /\ streams[s].queue # <<>>
    /\ streams' = [streams EXCEPT ![s].frames = Append(@, Head(streams[s].queue)),
                                  ![s].queue = Tail(@)]
    /\ UNCHANGED <<user_queues, log, pipelineVars, searchVars, schedVars>>

\* a finally block that leaves the user's key in place
unsubscribe_keeping_key(s) ==
    /\ streams[s].pc \in {"created", "open"}
    /\ streams' = [streams EXCEPT ![s].pc = "closed"]
    /\ user_queues' =
          IF streams[s].pc = "open" /\ streams[s].user_id \in DOMAIN user_queues
          THEN [user_queues EXCEPT ![streams[s].user_id] = @ \ {s}]
          ELSE user_queues
    /\ UNCHANGED <<log, pipelineVars, searchVars, schedVars>>

\* the consumer cancels the stream: the generator is closed, and if it had
\* started its finally block runs
unsubscribe(s) ==
    /\ streams[s].pc \in {"created", "open"}
    /\ streams' = [streams EXCEPT ![s].pc = "closed"]
    /\ user_queues' =
          LET user_id == streams[s].user_id
          IN IF streams[s].pc = "open" /\ user_id \in DOMAIN user_queues
             THEN IF user_queues[user_id] \ {s} = {}
                  THEN [u \in DOMAIN user_queues \ {user_id} |-> user_queues[u]]
                  ELSE [user_queues EXCEPT ![user_id] = @ \ {s}]
             ELSE user_queues
    /\ UNCHANGED <<log, pipelineVars, searchVars, schedVars>>

\* the broadcasts so far, with the one of `message` to user_id
Logged(user_id, message) ==
    Append(log, [user_id |-> user_id, message |-> message])

\* a broadcast that puts the message on every registered queue
broadcast_to_all(user_id, event_name) ==
    /\ Len(log) < MaxBroadcasts
    /\ LET message == Message(event_name, Len(log) + 1)
       IN /\ log' = Logged(user_id, message)
          /\ streams' = [s \in StreamIds |->
                IF \E u \in DOMAIN user_queues : s \in user_queues[u]
                THEN [streams[s] EXCEPT !.queue = Append(@, message)]
                ELSE streams[s]]
    /\ UNCHANGED <<user_queues, pipelineVars, searchVars, schedVars>>

\* EventManager.broadcast; the payload is the ordinal of the broadcast
broadcast(user_id, event_name) ==
    /\ Len(log) < MaxBroadcasts
    /\ LET message == Message(event_name, Len(log) + 1)
       IN /\ log' = Logged(user_id, message)
          /\ streams' = IF user_id \in DOMAIN user_queues
                        THEN [s \in StreamIds |->
                                IF s \in user_queues[user_id]
                                THEN [streams[s] EXCEPT !.queue = Append(@, message)]
                                ELSE streams[s]]
                        ELSE streams
    /\ UNCHANGED <<user_queues, pipelineVars, searchVars, schedVars>>

NextEvents ==
    \/ events_endpoint
    \/ \E s \in StreamIds : subscribe(s)
    \/ \E s \in StreamIds : queue_get(s)
    \/ \E s \in StreamIds : unsubscribe(s)
    \/ \E user_id \in Owners, event_name \in EventNames : broadcast(user_id, event_name)

SpecEvents == Init /\ [][NextEvents]_vars

\* ---- properties ---------------------------------------------------------------
Range(q) == {q[i] : i \in DOMAIN q}
RunsOf(n) == {i \in RunIds : runs[i].note = n}
Returning == finished.kind # "none"

\* C1: no two pipeline runs (process_new_note or reprocess_note) are executing
\* for the same note id at the same time.
C1_OneRunPerNote ==
    \A i, j \in RunIds :
        (i # j /\ Executing(runs[i]) /\ Executing(runs[j])) => runs[i].note # runs[j].note

\* the rows a run working alone on transcript t can leave behind
AloneOutcome(row) ==
    /\ row.processing_status \in {"completed", "failed"}
    /\ row.processing_status = "completed" =>
          /\ row.error_message = None
          /\ row.embedding = EmbeddingOf(row.raw_transcript)
          /\ \E res \in SummaryResults(row.raw_transcript, {1}, {"json"}) :
                /\ row.summary = res.summary
                /\ row.tag = res.tag
                /\ row.notification_timestamp = res.notification_timestamp
    /\ row.processing_status = "failed" => row.error_message # None

\* C2: when two runs for one note overlapped and both have returned (no owner
\* write landed while either was executing), the row is what a single run
\* leaves behind, never fields of one run mixed with fields of the other.
C2_NoHybrid ==
    (/\ Returning
     /\ finished.overlapped
     /\ ~finished.edited
     /\ RunsOf(finished.note) = {})
    => AloneOutcome(notes[finished.note])

\* C3: a run whose final commit finds the row reset to `pending` by an owner
\* transcript edit does not overwrite that `pending` with its own final status.
C3_EditNotOverwritten ==
    (Returning /\ finished.edited /\ finished.before = "pending")
    => notes[finished.note].processing_status = "pending"

\* C4: error_message is non-null exactly when processing_status is `failed`.
C4_ErrorIffFailed ==
    \A n \in DOMAIN notes :
        (notes[n].error_message # None) <=> (notes[n].processing_status = "failed")

\* C5 (as stated): a non-null embedding implies the note was completed at
\* least once since its raw_transcript last changed.
C5_EmbeddingFresh ==
    \A n \in DOMAIN notes : notes[n].embedding # None => hist[n].sinceEdit

\* C5 (amended): a non-null embedding implies some run committed `completed`
\* for the note; a transcript edit leaves the earlier embedding in place.
C5_EmbeddingOnceCompleted ==
    \A n \in DOMAIN notes : notes[n].embedding # None => hist[n].ever

C5_Witness ==
    \E n \in DOMAIN notes :
        /\ notes[n].embedding # None
        /\ notes[n].processing_status = "pending"
        /\ ~hist[n].sinceEdit

\* C6: when an update endpoint returns from NoteService.update_note with a
\* transcript supplied, the row holds that transcript and is `pending`.
C6_EditResetsToPending ==
    (last.op \in {"update_note", "update_note_web", "update_note_web_legacy"}
        /\ last.raw_transcript # None)
    => /\ notes[last.note].raw_transcript = last.raw_transcript
       /\ notes[last.note].processing_status = "pending"

C6_Witness ==
    /\ last.op = "update_note"
    /\ last.raw_transcript # None
    /\ hist[last.note].ever
    /\ notes[last.note].embedding # None
    /\ notes[last.note].processing_status = "pending"

\* C7: the run of a note created with a non-empty transcript and no audio
\* persists processing then completed, and neither persists nor publishes
\* `transcribing`.
C7_TextNoteSkipsTranscribing ==
    (/\ Returning
     /\ finished.origin = "text"
     /\ finished.had_transcript
     /\ finished.outcome = "completed"
     /\ ~finished.overlapped /\ ~finished.edited)
    => /\ finished.persisted = <<"processing", "completed">>
       /\ "transcribing" \notin Range(finished.published)

\* C8: a run that ended in its except branch leaves the note `failed` with a
\* non-null error_message.
C8_FailureRecorded ==
    (Returning /\ finished.outcome = "failed")
    => /\ notes[finished.note].processing_status = "failed"
       /\ notes[finished.note].error_message # None

\* C9: a run that ends `failed` has written none of summary, tag, embedding
\* and notification_timestamp.
C9_FailedWritesNoDerived ==
    (Returning /\ finished.outcome = "failed") => finished.wrote \cap DerivedFields = {}

C9_Witness ==
    /\ Returning
    /\ finished.outcome = "failed"
    /\ finished.result # NoResult
    /\ notes[finished.note].summary = None

\* C10: a run started by retry never invokes transcription and never persists
\* or publishes `transcribing`; with a transcript present when it starts, it
\* goes to enrichment.
RetryRunOk(run) ==
    run.origin = "retry_failed_note" =>
        /\ ~run.transcribed
        /\ "transcribing" \notin Range(run.persisted) \cup Range(run.published)
        /\ (run.pc # "queued" /\ run.had_transcript) => run.enriched

C10_RetrySkipsTranscription ==
    /\ RetryRunOk(finished)
    /\ \A i \in RunIds : RetryRunOk(runs[i])

C10_Witness ==
    /\ Returning
    /\ finished.origin = "retry_failed_note"
    /\ finished.had_transcript
    /\ finished.enriched
    /\ finished.outcome = "completed"

\* C11: a retry run that finds the note without a transcript persists
\* `transcribing` and runs transcription again.
C11_RetryTranscribesAgain ==
    (/\ Returning
     /\ finished.origin = "retry_failed_note"
     /\ ~finished.had_transcript)
    => /\ finished.transcribed
       /\ "transcribing" \in Range(finished.persisted)

\* C12: a retry of a note that is not `failed` is rejected and changes no
\* field of the note, starts no run and broadcasts no event.
C12_RetryRejected ==
    [][(last'.op = "retry_failed_note" /\ ~last'.ok)
        => /\ notes' = notes
           /\ runs' = runs
           /\ last'.events = <<>>]_vars

C12_Witness ==
    /\ last.op = "retry_failed_note"
    /\ ~last.ok
    /\ notes[last.note].processing_status = "completed"

\* C13: every note a similarity query returns is owned by the requesting
\* owner, is not archived, has an embedding of the byte length of the query
\* vector and is not the source note; a query with a non-empty vector raises
\* no error, whatever the dimensions of the stored vectors.
C13_SimilarityFilters ==
    /\ \A k \in DOMAIN found.rows :
          LET row == stored[found.rows[k]]
          IN /\ row.user_id = found.user_id
             /\ ~row.archived
             /\ ~row.embedding.null
             /\ Len(row.embedding.floats) = Len(found.query)
             /\ found.rows[k] # found.note
    /\ (found.outcome = "error") => (found.query = <<>>)

C13_Witness ==
    /\ found.op = "search_notes_semantic"
    /\ found.rows # <<>>
    /\ \E i \in DOMAIN stored :
          /\ stored[i].user_id = found.user_id
          /\ ~stored[i].archived
          /\ ~stored[i].embedding.null
          /\ Len(stored[i].embedding.floats) # Len(found.query)

\* get_similar_notes returns a note while the source note is itself eligible
C13_WitnessSimilar ==
    /\ found.op = "get_similar_notes"
    /\ found.rows # <<>>
    /\ ~stored[found.note].archived

\* the event frames a stream has been handed: those it yielded after the ping
\* and those waiting on its queue
Handed(s) ==
    SelectSeq(streams[s].frames, LAMBDA f : f # Ping) \o streams[s].queue

\* C14: nothing broadcast before a subscription reaches the subscriber: every
\* event frame a stream yields or has queued was broadcast after the stream
\* registered, also when the owner had no subscriber at the broadcast.
C14_NothingRetained ==
    \A s \in StreamIds : \A k \in DOMAIN Handed(s) :
        Handed(s)[k].data > streams[s].since

C14_Witness ==
    /\ Len(log) = MaxBroadcasts
    /\ \A s \in StreamIds : streams[s].pc = "created" \/ streams[s].since >= 1
    /\ \E s \in StreamIds :
          /\ streams[s].user_id = log[1].user_id
          /\ Len(streams[s].frames) >= 2

\* C15: a broadcast puts exactly one frame with its event name and payload on
\* the queue of every stream then subscribed for that owner and leaves every
\* other queue (another owner's, a cancelled or unstarted stream's) as it was.
C15_FanOut ==
    [][Len(log') > Len(log) =>
        LET b == log'[Len(log')]
        IN \A s \in StreamIds :
              streams'[s].queue = IF s \in Live(b.user_id)
                                  THEN Append(streams[s].queue, b.message)
                                  ELSE streams[s].queue]_vars

C15_Witness ==
    \E s, t \in StreamIds :
        /\ s # t
        /\ streams[s].user_id = streams[t].user_id
        /\ streams[s].queue # <<>>
        /\ streams[t].queue # <<>>
        /\ Head(streams[s].queue) = Head(streams[t].queue)

\* C16: the first frame a stream yields is the ping.
C16_PingFirst ==
    \A s \in StreamIds :
        /\ streams[s].frames # <<>> => Head(streams[s].frames) = Ping
        /\ streams[s].pc = "open" => streams[s].frames # <<>>

C16_Witness ==
    \E s \in StreamIds :
        /\ Len(streams[s].frames) = 2
        /\ streams[s].frames[2].data = streams[s].since + 1

\* C17: the registry maps exactly the owners with a live stream, each to the
\* queues of its live streams; no key maps to the empty set.
C17_RegistryExact ==
    /\ \A u \in DOMAIN user_queues : user_queues[u] # {} /\ user_queues[u] = Live(u)
    /\ \A u \in Owners : Live(u) # {} => u \in DOMAIN user_queues

C17_Witness ==
    \E s, t \in StreamIds :
        /\ s # t
        /\ streams[s].pc = "closed" /\ streams[s].frames # <<>>
        /\ streams[t].pc = "closed" /\ streams[t].frames # <<>>
        /\ streams[s].user_id = streams[t].user_id
        /\ user_queues = <<>>
        /\ log # <<>>

\* C18: at most one notification job is pending per note id, its run date is
\* the one of the latest add_job call for that note, and a job that fires
\* fires at the run date of the latest call made before it.
C18_OneJobPerNote ==
    /\ \A j1, j2 \in jobs : j1.id = j2.id => j1 = j2
    /\ \A j \in jobs :
          /\ scheduled[j.note] # <<>>
          /\ j.run_date = scheduled[j.note][Len(scheduled[j.note])]
    /\ fired # NoJobRun =>
          /\ fired.calls # <<>>
          /\ fired.run_date = fired.calls[Len(fired.calls)]

C18_Witness ==
    /\ fired # NoJobRun
    /\ Len(fired.calls) = 2
    /\ fired.calls[1] # fired.calls[2]
    /\ jobs = {}

\* C19: a job is added only by a completing run, for the timestamp stored on
\* the note, and only if that timestamp is strictly later than the time of
\* the evaluation; a completing run dispatches no notification itself.
C19_OnlyFutureScheduled ==
    [][/\ \A j \in jobs' \ jobs :
            /\ finished'.outcome = "completed"
            /\ finished'.note = j.note
            /\ notes'[j.note].notification_timestamp = j.run_date
            /\ j.run_date > now
       /\ finished'.outcome = "completed" => fired' = fired]_vars

C19_Witness ==
    /\ Returning
    /\ finished.outcome = "completed"
    /\ notes[finished.note].notification_timestamp # NoTime
    /\ notes[finished.note].notification_timestamp = now
    /\ jobs = {}

\* C20: when delete_note has succeeded, no notification job for the deleted
\* note id is pending.
C20_DeleteCancelsJob ==
    (last.op = "delete_note" /\ last.ok) => \A j \in jobs : j.note # last.note

\* C21: every committed change of a note's processing_status is followed by a
\* broadcast of the new status name: a handler that changes the status of a
\* row broadcasts the new status, and a run that has returned has published
\* every status it persisted.
C21_StatusChangeBroadcast ==
    [][/\ last'.op # "none" =>
            \A n \in DOMAIN notes \cap DOMAIN notes' :
                notes'[n].processing_status # notes[n].processing_status
                => notes'[n].processing_status \in Range(last'.events)
       /\ finished'.kind # "none" =>
            \A k \in DOMAIN finished'.persisted :
                finished'.persisted[k] \in Range(finished'.published)]_vars

\* the positions of a run's trace where it did `act` of `what`
Where(run, act, what) ==
    {k \in DOMAIN run.trace : run.trace[k].act = act /\ run.trace[k].what = what}

\* C22: a run publishes note-processed exactly once if it commits `completed`,
\* after that commit, and never otherwise: not while it is in flight and not
\* when it ends `failed`.
C22_ProcessedOncePerCompletion ==
    /\ \A i \in RunIds : Where(runs[i], "broadcast", "note-processed") = {}
    /\ (Returning /\ "completed" \in Range(finished.persisted)) =>
          /\ Cardinality(Where(finished, "broadcast", "note-processed")) = 1
          /\ Len(SelectSeq(finished.published, LAMBDA e : e = "note-processed")) = 1
          /\ \A k \in Where(finished, "broadcast", "note-processed") :
                \E j \in Where(finished, "commit", "completed") : j < k
    /\ (Returning /\ "completed" \notin Range(finished.persisted)) =>
          "note-processed" \notin Range(finished.published)
    /\ (Returning /\ finished.outcome = "failed") =>
          "completed" \notin Range(finished.persisted)

C22_Witness ==
    /\ Returning
    /\ finished.kind = "reprocess_note"
    /\ finished.outcome = "completed"
    /\ finished.overlapped
    /\ "note-processed" \in Range(finished.published)

\* the notes a listing for user_id may show
Listable(user_id) ==
    {n \in DOMAIN notes : notes[n].user_id = user_id /\ ~notes[n].archived}

\* C23: list_notes returns only non-archived notes of the requesting owner,
\* each once, as many as the page holds; its total is the number of such
\* notes whatever skip and limit are; a note archived by its owner is still
\* in the table and in no page of the owner's listing.
C23_ListingScoped ==
    /\ found.op = "list_notes" =>
          /\ Range(found.rows) \subseteq Listable(found.user_id)
          /\ Cardinality(Range(found.rows)) = Len(found.rows)
          /\ found.total = Cardinality(Listable(found.user_id))
          /\ Len(found.rows) = IF found.total - found.skip < 0 THEN 0
                               ELSE IF found.total - found.skip < found.limit
                               THEN found.total - found.skip ELSE found.limit
    /\ (found.op = "archive_note" /\ found.outcome = "ok") =>
          /\ found.note \in DOMAIN notes
          /\ notes[found.note].archived
          /\ \A skip \in Skips, limit \in Limits :
                found.note \notin Range(list_notes(found.user_id, skip, limit).rows)

C23_Witness ==
    /\ found.op = "list_notes"
    /\ found.rows # <<>>
    /\ found.total = 1
    /\ \E n \in DOMAIN notes : notes[n].user_id = found.user_id /\ notes[n].archived

\* C24: get_note, update_note, delete_note, archive_note and unarchive_note
\* called with an id that is not in the table (never assigned, or deleted) or
\* that is the id of another owner's note answer NotFoundError and leave the
\* table as it was; called with the id of an own note they do not.
C24_NotFoundChangesNothing ==
    [][found'.op \in {"get_note", "update_note", "delete_note",
                      "archive_note", "unarchive_note"} =>
          IF found'.note \in DOMAIN notes /\ notes[found'.note].user_id = found'.user_id
          THEN found'.outcome = "ok"
          ELSE found'.outcome = "NotFoundError" /\ notes' = notes]_vars

\* a call with an id that was deleted, below the id of a row still there
C24_Witness ==
    /\ found.op = "update_note"
    /\ found.outcome = "NotFoundError"
    /\ found.note \notin DOMAIN notes
    /\ \E n \in DOMAIN notes : n > found.note /\ notes[n].user_id = found.user_id

\* a call with the id of another owner's note
C24_WitnessOtherOwner ==
    /\ found.op = "delete_note"
    /\ found.outcome = "NotFoundError"
    /\ found.note \in DOMAIN notes

\* C25: when an update endpoint has returned from an edit of the transcript, a
\* pipeline run for the note is waiting to start, which will read the new
\* transcript and take the note out of `pending`.
C25_EditStartsRun ==
    (last.op \in {"update_note", "update_note_web", "update_note_web_legacy"}
        /\ last.raw_transcript # None)
    => \E i \in RunIds : runs[i].note = last.note /\ runs[i].pc = "queued"

\* C26: when PATCH /api/notes/{id} has answered a body that holds a summary
\* and no transcript, the note's summary is that value and its raw_transcript
\* is what it was.
C26_SummaryUpdated ==
    [][(last'.op = "update_note" /\ last'.summary # None /\ last'.raw_transcript = None)
        => /\ notes'[last'.note].summary = last'.summary
           /\ notes'[last'.note].raw_transcript = notes[last'.note].raw_transcript]_vars

\* C27: PATCH /api/notes/{id} asked for a tag and no transcript sets the tag,
\* leaves every other field of the note as it was (raw_transcript,
\* processing_status, summary and embedding among them) and starts no run.
C27_TagOnlyUpdate ==
    [][(last'.op = "update_note" /\ last'.raw_transcript = None /\ last'.tag # None)
        => /\ notes'[last'.note] = [notes[last'.note] EXCEPT !.tag = last'.tag]
           /\ runs' = runs]_vars

C27_Witness ==
    /\ last.op = "update_note"
    /\ last.raw_transcript = None
    /\ last.tag # None
    /\ notes[last.note].tag = last.tag
    /\ notes[last.note].processing_status = "completed"
    /\ notes[last.note].embedding # None

\* the status left in the row by the last commit a run made before position k
\* of its trace ("none" if it made none)
CommittedBefore(run, k) ==
    LET js == {j \in 1..(k - 1) : run.trace[j].act = "commit"}
    IN IF js = {} THEN "none"
       ELSE run.trace[CHOOSE j \in js : \A i \in js : i <= j].what

\* the status a run must have committed before it starts an external call
StatusFor(call) == IF call = "transcribe_file" THEN "transcribing" ELSE "processing"

PersistThenCall(run) ==
    \A k \in DOMAIN run.trace :
        /\ (run.trace[k].act = "broadcast" /\ run.trace[k].what \in Statuses)
              => CommittedBefore(run, k) = run.trace[k].what
        /\ run.trace[k].act = "call"
              => /\ CommittedBefore(run, k) = StatusFor(run.trace[k].what)
                 /\ run.trace[k].dirty = {}

\* C28: in every run, a status is broadcast only after the commit that left
\* it in the row, transcription starts only after `transcribing` is
\* committed and the two enrichment calls only after `processing` is, and no
\* external call starts while the session holds an uncommitted assignment.
C28_PersistThenCall ==
    /\ PersistThenCall(finished)
    /\ \A i \in RunIds : PersistThenCall(runs[i])

C28_Witness ==
    /\ Returning
    /\ finished.origin = "upload"
    /\ finished.outcome = "completed"
    /\ finished.overlapped
    /\ Where(finished, "call", "transcribe_file") # {}
    /\ Where(finished, "call", "generate_embedding") # {}

\* C29: while a note is `failed` and no run for it is waiting to start, nothing
\* but an owner request (a retry or an edit) changes its status, and no run
\* executes a step for it.
C29_FailedUntilOwnerActs ==
    [][\A n \in DOMAIN notes \cap DOMAIN notes' :
          (/\ notes[n].processing_status = "failed"
           /\ \A i \in RunIds : runs[i].note = n => runs[i].pc # "queued"
           /\ last'.op \notin {"retry_failed_note", "update_note"})
          => /\ notes'[n].processing_status = "failed"
             /\ runs' = runs]_vars

\* what generate_summary_and_tag returns for an answer that does not parse
Unparsed == [summary |-> "", tag |-> None, notification_timestamp |-> NoTime]

\* C30: a run whose summarization answer did not parse ends `failed`, and a
\* `completed` note has a summary, a tag and an embedding.
C30_UnparsableFails ==
    /\ (Returning /\ finished.result = Unparsed) => finished.outcome = "failed"
    /\ \A n \in DOMAIN notes :
          notes[n].processing_status = "completed"
          => /\ notes[n].summary \notin {None, ""}
             /\ notes[n].tag # None
             /\ notes[n].embedding # None

\* a run that found a transcript when it started has not called transcription
\* and has not written raw_transcript
KeepsTranscript(run) ==
    run.had_transcript => (~run.transcribed /\ "raw_transcript" \notin run.wrote)

\* C31: a run started for a note that has a non-empty transcript never
\* invokes transcription and never replaces the stored raw_transcript.
C31_TranscriptKept ==
    /\ KeepsTranscript(finished)
    /\ \A i \in RunIds : KeepsTranscript(runs[i])

\* C32: when the notification job of a note has run and dispatched, the
\* note's notification_timestamp is null.
C32_TimestampCleared ==
    [][\A j \in jobs \ jobs' :
          (jobs' \subseteq jobs /\ fired'.dispatched)
          => notes'[j.note].notification_timestamp = NoTime]_vars

\* C33: a notification job is pending for a note at a time only if that time
\* is the note's stored notification_timestamp.
C33_JobMatchesTimestamp ==
    \A j \in jobs :
        Exists(j.note) => notes[j.note].notification_timestamp = j.run_date

\* C34: when a broadcast of a run has raised, the note's persisted
\* processing_status and error_message are those committed before the
\* broadcast (a note committed `completed` stays `completed` with no error
\* message), and the exception leaves the run.
C34_BroadcastNotAbsorbed ==
    (finished.fault = "broadcast" /\ Exists(finished.note))
    => /\ notes[finished.note].processing_status = "completed"
       /\ notes[finished.note].error_message = None
       /\ finished.surfaced

\* C35: a note committed `completed` stays `completed` with error_message
\* null when add_job raises while its notification is scheduled, and when
\* the Home Assistant call raises while the notification is dispatched.
C35_SchedulingNonFatal ==
    [][/\ (finished'.fault = "add_job" /\ finished'.note \in DOMAIN notes')
          => /\ finished'.outcome = "completed"
             /\ notes'[finished'.note].processing_status = "completed"
             /\ notes'[finished'.note].error_message = None
       /\ \A j \in jobs \ jobs' :
             (fired'.error /\ notes[j.note].processing_status = "completed")
             => /\ notes'[j.note].processing_status = "completed"
                /\ notes'[j.note].error_message = None]_vars

C35_Witness ==
    /\ finished.fault = "add_job"
    /\ Exists(finished.note)
    /\ jobs = {}
    /\ notes[finished.note].notification_timestamp > now

C35_WitnessDispatch ==
    /\ fired.error
    /\ Exists(fired.note)
    /\ notes[fired.note].processing_status = "completed"

\* the rows the last query could choose from
Candidates == Eligible(found.user_id, serialize_vector(found.query), found.note)

\* row a is nearer to the vector of the last query than row b
Nearer(a, b) ==
    ~NotFarther(stored[b].embedding.floats, stored[a].embedding.floats, found.query)

C36_WitnessNoEmbedding ==
    /\ found.op = "get_similar_notes"
    /\ found.outcome = "ok"
    /\ stored[found.note].embedding.null
    /\ EligibleAnyLength(found.user_id, Null, found.note) # {}

\* C37: every background task that was started returns, and a task that
\* returns with no other run and no owner write in between leaves the note
\* `completed` or `failed`, never `pending`, `transcribing` or `processing`.
C37_RunsTerminate ==
    /\ [](( /\ Returning
            /\ ~finished.overlapped
            /\ ~finished.edited
            /\ Exists(finished.note))
          => notes[finished.note].processing_status \in {"completed", "failed"})
    /\ (runs # <<>>) ~> (runs = <<>>)

C37_Witness ==
    /\ Returning
    /\ ~finished.overlapped
    /\ ~finished.edited
    /\ finished.transcribed
    /\ finished.outcome = "failed"
    /\ finished.result # NoResult
    /\ notes[finished.note].processing_status = "failed"

\* the messages broadcast for user_id after the first `since` broadcasts
BroadcastSince(user_id, since) ==
    LET mine == SelectSeq(log, LAMBDA b : b.user_id = user_id /\ b.message.data > since)
    IN [i \in DOMAIN mine |-> mine[i].message]

\* C38: the event frames of a stream are broadcasts made for its owner, in
\* the order of the broadcasts and each at most once; a stream that is open
\* has yielded or has queued every broadcast made for its owner since it
\* subscribed, whatever other streams joined or left in between.
C38_StreamFifo ==
    \A s \in StreamIds :
        /\ \A i, j \in DOMAIN Handed(s) : i < j => Handed(s)[i].data < Handed(s)[j].data
        /\ \A i \in DOMAIN Handed(s) :
              /\ Handed(s)[i].data \in DOMAIN log
              /\ log[Handed(s)[i].data] =
                    [user_id |-> streams[s].user_id, message |-> Handed(s)[i]]
        /\ streams[s].pc = "open" =>
              Handed(s) = BroadcastSince(streams[s].user_id, streams[s].since)

C38_Witness ==
    \E s, t \in StreamIds :
        /\ s # t
        /\ streams[s].user_id = streams[t].user_id
        /\ Len(streams[s].frames) = 3
        /\ streams[s].frames[2].data < streams[s].frames[3].data
        /\ streams[t].pc # "created"
        /\ streams[t].since = streams[s].frames[2].data

\* C39: the handler that creates a note commits the row, hands the run to
\* the background tasks and broadcasts note-created before the run has
\* published anything; a run publishes the status of a note only in a later
\* step, the note and its note-created event being there already.
C39_CreatedBeforeStatus ==
    [][/\ \A n \in DOMAIN notes' \ DOMAIN notes :
             /\ last'.op \in {"upload_voice_note", "create_text_note_web"}
             /\ last'.note = n
             /\ last'.events = <<"note-created">>
             /\ notes'[n].processing_status = "pending"
             /\ \E i \in DOMAIN runs' : runs'[i].note = n
             /\ \A i \in DOMAIN runs' :
                   runs'[i].note = n => (runs'[i].pc = "queued" /\ runs'[i].published = <<>>)
       /\ \A i \in DOMAIN runs' :
             runs'[i].published # <<>> => runs'[i].note \in DOMAIN notes
       /\ finished'.published # <<>> => finished'.note \in DOMAIN notes]_vars

C39_Witness ==
    \E i \in RunIds :
        /\ runs[i].origin = "upload"
        /\ runs[i].pc = "transcribe"
        /\ runs[i].published = <<"transcribing">>
        /\ notes[runs[i].note].processing_status = "transcribing"

====
